---- MODULE Spec2Model ----
(***************************************************************************)
(* Boatmate warranty intake: the ClaimCounter Durable Object and the       *)
(* intake Worker that calls it (warranty-form-handler.js).                 *)
(*                                                                         *)
(* Requests 1..NumReqs are intake submissions.  A submission that passes   *)
(* validation issues one POST /next to the ClaimCounter; the invocation    *)
(* it causes carries the same index.  ClaimCounter is a Durable Object:    *)
(* while one of its handlers awaits a storage operation no other request   *)
(* is delivered to it (input gate).  The handler keeps no counter state    *)
(* in memory: n lives in storage under key "n" and in the local variable   *)
(* of each invocation.                                                     *)
(*                                                                         *)
(* Spec is the whole program with NumReqs concurrent submissions.          *)
(* FairSpec is the counter with its callers under the scheduling the       *)
(* runtime provides, for the progress property.  SpecWatched follows one   *)
(* submission through the handler and records what it was, what the        *)
(* handler sent and what it answered, for the properties of the handler.   *)
(***************************************************************************)
EXTENDS Integers, Sequences, FiniteSets

\* ---------------------------------------------------------------- bounds
NumReqs == 2

\* ------------------------------------------------------ program constants
Baseline == 100000
NotFound == 404
MAX_ATTACHMENT_FILES == 10

Reqs == 1..NumReqs

\* ------------------------------------------------------------- JS values
Undefined == [t |-> "undefined"]
Num(v) == [t |-> "number", v |-> v]

\* History variables start at None.
None == [t |-> "none"]

\* The counter's value as the claims speak of it: the number under "n", the
\* baseline while nothing was ever persisted.
Value(s) == IF s.t = "number" THEN s.v ELSE Baseline

\* JS truthiness of a stored value: undefined and 0 are falsy.
Truthy(x) == x.t = "number" /\ x.v # 0

\* x || d
OrElse(x, d) == IF Truthy(x) THEN x ELSE d

VARIABLES
  stored,      \* durable storage of the object: the value under key "n"
  ipc,         \* per invocation: position in ClaimCounter.fetch
  loc,         \* per invocation: the local variable n
  prev,        \* history: value under "n" just before the invocation's write
  across,      \* history: invocations answered before a restart that came before this delivery
  seen,        \* history: value under "n" when the invocation was delivered
  pend,        \* history: the calls pending together with this one at its delivery
  aged,        \* history: invocations answered before the latest restart
  probe,       \* status of the last answer to a request other than POST /next
  wpc,         \* per request: position in the Worker's fetch handler
  claim,       \* per request: the handler's claimNumber
  down,        \* per request: how the CRM and e-mail calls of the handler went
  inst,        \* per request: name of the ClaimCounter instance its call is routed to
  watch,       \* the request whose handler run is recorded in run (0: none)
  run          \* the recorded run: form, counter calls, downstream calls, response

vars == <<stored, ipc, loc, prev, across, seen, pend, aged, probe, wpc, claim, down,
         inst, watch, run>>

\* ------------------------------------------------------------ ClaimCounter

\* Variant: the handler starts from the baseline whatever storage holds.
ReadN_fresh(s) == Baseline

\* this.state.storage.get("n") || 100000
ReadN(s) == OrElse(s, Num(Baseline)).v

\* Variant: the increment is missing.
Increment_none(n) == n

\* n += 1
Increment(n) == n + 1

\* Variant: the path is not looked at.
IsNext_anypost(method, path) == method = "POST"

\* request.method !== "POST" || url.pathname !== "/next"  (negated)
IsNext(method, path) == method = "POST" /\ path = "/next"

\* Variants: an await that is not a storage operation leaves the input gate open.
StorageAwaits_none == {}
StorageAwaits_getonly == {"get"}
StorageAwaits_putonly == {"put"}

\* Variant: a handler that failed keeps the input gate closed.
StorageAwaits_stuck == {"get", "put", "failed"}

\* The await points of the handler at which the object's input gate is
\* closed: both awaits are storage operations.
StorageAwaits == {"get", "put"}

\* No handler of the object is suspended on a storage operation.
GateOpen == \A q \in Reqs : ipc[q] \notin StorageAwaits

\* Variant: the constructor starts the counter afresh.
AfterRestart_reset(s) == Undefined

\* What a new instance of the object finds in storage: the constructor
\* only keeps the state and env handles and writes nothing.
AfterRestart(s) == s

\* Variant: the put is never issued.
StoragePut_dropped(s, n) == s

\* What storage holds under "n" once put("n", n) has committed.
StoragePut(s, n) == Num(n)

\* Variant: the handler catches the storage error and answers all the same.
OnStorageError_swallow == "responded"

\* Where a rejected storage operation leaves the invocation: nothing in
\* fetch catches it, so the exception leaves the handler.
OnStorageError == "failed"

\* Variant: every request addresses an instance of its own.
CounterName_fresh == "per-request"

\* env.CLAIM_COUNTER.idFromName("global"): the name of the instance every
\* handler addresses.  stored is the storage of the instance of that name.
CounterName == "global"

\* The Worker's call: doStub.fetch("https://counter/next", {method: "POST"})
CounterCall == [method |-> "POST", path |-> "/next"]

\* A queued POST /next is delivered; the handler runs up to its first await,
\* the storage read.
Deliver(r) ==
  /\ ipc[r] = "queued"
  /\ inst[r] = "global"
  /\ GateOpen
  /\ IF IsNext(CounterCall.method, CounterCall.path)
       THEN ipc' = [ipc EXCEPT ![r] = "get"]
       ELSE ipc' = [ipc EXCEPT ![r] = "notfound"]
  /\ across' = [across EXCEPT ![r] = aged]
  /\ seen' = [seen EXCEPT ![r] = stored]
  /\ pend' = [pend EXCEPT ![r] = {q \in Reqs : ipc[q] = "queued"}]
  /\ UNCHANGED <<stored, loc, prev, aged, probe, wpc, claim, down, inst, watch, run>>

\* storage.get resolves; n += 1; storage.put is called.
GetOk(r) ==
  /\ ipc[r] = "get"
  /\ loc' = [loc EXCEPT ![r] = Increment(ReadN(stored))]
  /\ ipc' = [ipc EXCEPT ![r] = "put"]
  /\ UNCHANGED <<stored, prev, across, seen, pend, aged, probe, wpc, claim, down, inst, watch, run>>

\* storage.get rejects: the exception leaves fetch, nothing is written.
GetFail(r) ==
  /\ ipc[r] = "get"
  /\ ipc' = [ipc EXCEPT ![r] = OnStorageError]
  /\ UNCHANGED <<stored, loc, prev, across, seen, pend, aged, probe, wpc, claim, down, inst, watch, run>>

\* storage.put commits the local n under "n".
PutOk(r) ==
  /\ ipc[r] = "put"
  /\ prev' = [prev EXCEPT ![r] = stored]
  /\ stored' = StoragePut(stored, loc[r])
  /\ ipc' = [ipc EXCEPT ![r] = "committed"]
  /\ UNCHANGED <<loc, across, seen, pend, aged, probe, wpc, claim, down, inst, watch, run>>

\* storage.put rejects: nothing is written, the exception leaves fetch.
PutFail(r) ==
  /\ ipc[r] = "put"
  /\ ipc' = [ipc EXCEPT ![r] = OnStorageError]
  /\ UNCHANGED <<stored, loc, prev, across, seen, pend, aged, probe, wpc, claim, down, inst, watch, run>>

\* return new Response(JSON.stringify({ n }))
Respond(r) ==
  /\ ipc[r] = "committed"
  /\ ipc' = [ipc EXCEPT ![r] = "responded"]
  /\ UNCHANGED <<stored, loc, prev, across, seen, pend, aged, probe, wpc, claim, down, inst, watch, run>>

\* A request to the object other than the Worker's call, handled in one
\* step: the route check sends it to the 404 answer; a request the check
\* let through would run the allocation.
Probe(method, path) ==
  /\ GateOpen
  /\ <<method, path>> # <<CounterCall.method, CounterCall.path>>
  /\ IF IsNext(method, path)
       THEN /\ stored' = StoragePut(stored, Increment(ReadN(stored)))
            /\ probe' = 200
       ELSE /\ stored' = stored
            /\ probe' = NotFound
  /\ UNCHANGED <<ipc, loc, prev, across, seen, pend, aged, wpc, claim, down, inst, watch, run>>

\* The object's process is lost (crash, eviction) and a new instance is
\* constructed: every handler in progress is gone and its caller's
\* stub.fetch rejects; durable storage is what the instance finds again.
Restart ==
  /\ aged' = {q \in Reqs : ipc[q] = "responded"}
  /\ stored' = AfterRestart(stored)
  /\ ipc' = [q \in Reqs |->
               IF ipc[q] \in {"get", "put", "committed"} THEN "failed" ELSE ipc[q]]
  /\ UNCHANGED <<loc, prev, across, seen, pend, probe, wpc, claim, down, inst, watch, run>>

\* ------------------------------------------------------------------ Worker

Min(a, b) == IF a < b THEN a ELSE b

\* A submission that passes every check: a dealer's multipart form, no files.
\* Fields hold what the handler tests: text fields by presence, the VIN and
\* the e-mail addresses by their pattern, attachments by their number and
\* the position of the first one above the size limit (0: none), the hidden
\* bot trap by the name of the hidden field that is filled ("": none).
GoodForm ==
  [method |-> "POST", ct |-> "multipart", parses |-> TRUE, hidden |-> "",
   vin |-> "valid", customer |-> "complete", customer_email |-> "valid",
   warranty |-> "complete", claim_submitted_by |-> "dealer",
   dealer |-> "complete", dealer_email |-> "valid",
   files |-> 0, big |-> 0]

\* The submissions tried: the good one and its one-field variations.
Forms ==
  {GoodForm}
  \cup {[GoodForm EXCEPT !.method = m] : m \in {"OPTIONS", "GET"}}
  \cup {[GoodForm EXCEPT !.parses = FALSE]}
  \cup {[GoodForm EXCEPT !.ct = "json", !.parses = b] : b \in BOOLEAN}
  \cup {[GoodForm EXCEPT !.hidden = h] : h \in {"honeypot", "_hp", "website"}}
  \cup {[GoodForm EXCEPT !.hidden = "honeypot", !.vin = "invalid"]}
  \cup {[GoodForm EXCEPT !.hidden = "_hp", !.files = MAX_ATTACHMENT_FILES + 1]}
  \cup {[GoodForm EXCEPT !.vin = "invalid"]}
  \cup {[GoodForm EXCEPT !.customer = "missing"]}
  \cup {[GoodForm EXCEPT !.customer_email = e] : e \in {"", "invalid"}}
  \cup {[GoodForm EXCEPT !.warranty = "missing"]}
  \cup {[GoodForm EXCEPT !.claim_submitted_by = w] : w \in {"customer", ""}}
  \cup {[GoodForm EXCEPT !.dealer = "missing"]}
  \cup {[GoodForm EXCEPT !.dealer_email = e] : e \in {"", "invalid"}}
  \cup {[GoodForm EXCEPT !.files = k] : k \in {1, MAX_ATTACHMENT_FILES, MAX_ATTACHMENT_FILES + 1}}
  \cup {[GoodForm EXCEPT !.files = 2, !.big = 2]}

\* request.json().catch(() => ({})): an unreadable JSON body is an empty form.
Parsed(f) ==
  IF f.ct = "json" /\ ~f.parses
    THEN [f EXCEPT !.hidden = "", !.vin = "invalid", !.customer = "missing",
                   !.customer_email = "", !.warranty = "missing",
                   !.claim_submitted_by = "", !.dealer = "missing",
                   !.dealer_email = "", !.files = 0, !.big = 0]
    ELSE IF f.ct = "json" THEN [f EXCEPT !.files = 0, !.big = 0]
    ELSE f

\* Variant: the hidden field is read under the name website.
Honeypot_website(f) == IF f.hidden = "website" THEN "filled" ELSE ""

\* String(f.get("honeypot") || f.get("_hp") || "").trim()
Honeypot(f) == IF f.hidden \in {"honeypot", "_hp"} THEN "filled" ELSE ""

\* The attachment loop: files are collected until the count limit or an
\* oversize file stops it.
OversizeHit(f) == f.big # 0 /\ f.big <= Min(f.files, MAX_ATTACHMENT_FILES)

AttachmentFiles(f) ==
  IF OversizeHit(f) THEN f.big - 1 ELSE Min(f.files, MAX_ATTACHMENT_FILES)

\* Variant: no limit is checked.
AttachmentErrors_unchecked(f) == {}

\* Variant: only the number of files is checked, not their size.
AttachmentErrors_countonly(f) ==
  IF f.files > MAX_ATTACHMENT_FILES THEN {"Too many attachments"} ELSE {}

AttachmentErrors(f) ==
  IF OversizeHit(f) THEN {"Attachment is too large"}
  ELSE IF f.files > MAX_ATTACHMENT_FILES THEN {"Too many attachments"}
  ELSE {}

\* Variant: only the VIN is validated.
Errors_vinonly(f) == IF f.vin # "valid" THEN {"VIN must be 17 chars"} ELSE {}

\* Variant: the dealer's fields are never required.
Errors_nodealer(f) ==
  (IF f.vin # "valid" THEN {"VIN must be 17 chars"} ELSE {})
  \cup (IF f.customer # "complete" THEN {"Customer field is required"} ELSE {})
  \cup (IF f.customer_email # "valid" THEN {"Customer email is invalid"} ELSE {})
  \cup (IF f.warranty # "complete" THEN {"Warranty field is required"} ELSE {})

\* Server-side validation: the errors array.
Errors(f) ==
  (IF f.vin # "valid" THEN {"VIN must be 17 chars"} ELSE {})
  \cup (IF f.customer # "complete" THEN {"Customer field is required"} ELSE {})
  \cup (IF f.customer_email = "" THEN {"Customer email is required"}
        ELSE IF f.customer_email # "valid" THEN {"Customer email is invalid"} ELSE {})
  \cup (IF f.warranty # "complete" THEN {"Warranty field is required"} ELSE {})
  \cup (IF f.claim_submitted_by = "dealer"
          THEN (IF f.dealer # "complete" THEN {"Dealer field is required"} ELSE {})
               \cup (IF f.dealer_email = "" THEN {"Dealer email is required"}
                     ELSE IF f.dealer_email # "valid" THEN {"Dealer email is invalid"}
                     ELSE {})
          ELSE {})

\* The handler up to the claim-number call: the response it returns at
\* once, or "next" when it goes on to the ClaimCounter.
Screen(f) ==
  IF f.method = "OPTIONS"
    THEN [to |-> "return", status |-> 204, ok |-> FALSE, errors |-> {}]
  ELSE IF f.method # "POST"
    THEN [to |-> "return", status |-> 405, ok |-> FALSE, errors |-> {}]
  ELSE IF f.ct # "json" /\ ~f.parses
    THEN [to |-> "return", status |-> 400, ok |-> FALSE,
          errors |-> {"Invalid request body"}]
  ELSE IF Honeypot(Parsed(f)) # ""
    THEN [to |-> "return", status |-> 200, ok |-> TRUE, errors |-> {}]
  ELSE IF Errors(Parsed(f)) \cup AttachmentErrors(Parsed(f)) # {}
    THEN [to |-> "return", status |-> 400, ok |-> FALSE,
          errors |-> Errors(Parsed(f)) \cup AttachmentErrors(Parsed(f))]
  ELSE [to |-> "next", status |-> 0, ok |-> FALSE, errors |-> {}]

\* What doStub.fetch(...) settles to for the caller of invocation r.
Reply(r) ==
  IF ipc[r] = "responded"
    THEN [kind |-> "response", status |-> 200, json |-> TRUE, n |-> Num(loc[r])]
  ELSE IF ipc[r] = "notfound"
    THEN [kind |-> "response", status |-> 404, json |-> FALSE, n |-> Undefined]
  ELSE [kind |-> "exception", status |-> 0, json |-> FALSE, n |-> Undefined]

Settled(r) == ipc[r] \in {"responded", "notfound", "failed"}

\* Variant: the handler catches the failure and goes on without a number.
ClaimOutcome_swallow(reply) == [threw |-> FALSE, claimNumber |-> reply.n]

\* const { n: claimNumber } = await doStub.fetch(...).then(r => r.json())
\* A rejected fetch and a body that is not JSON both throw; the status of
\* the response is not looked at.
ClaimOutcome(reply) ==
  IF reply.kind = "exception" \/ ~reply.json
    THEN [threw |-> TRUE, claimNumber |-> Undefined]
    ELSE [threw |-> FALSE, claimNumber |-> reply.n]

\* The bindings the handler reads from env: all of them set.
GoodEnv ==
  [HUBSPOT_TOKEN |-> TRUE, EMAIL_ENABLED |-> "true", EMAIL_API_ENDPOINT |-> TRUE,
   EMAIL_API_KEY |-> TRUE, FROM_EMAIL |-> TRUE]

\* The environments tried: the complete one and its one-binding variations.
Envs ==
  {GoodEnv}
  \cup {[GoodEnv EXCEPT !.HUBSPOT_TOKEN = FALSE]}
  \cup {[GoodEnv EXCEPT !.EMAIL_ENABLED = v] : v \in {"false", "", "TRUE"}}
  \cup {[GoodEnv EXCEPT !.EMAIL_API_ENDPOINT = FALSE]}
  \cup {[GoodEnv EXCEPT !.EMAIL_API_KEY = FALSE]}
  \cup {[GoodEnv EXCEPT !.FROM_EMAIL = FALSE]}

\* What HubSpot and the e-mail service answer when asked: every call succeeds.
AllOk ==
  [contact |-> "id", ticket |-> "id", assoc |-> "ok", upload |-> "id",
   note |-> "id", email |-> "ok"]

\* The answers tried: all well, one call failing, HubSpot failing altogether.
Outcomes ==
  {AllOk}
  \cup {[AllOk EXCEPT !.contact = "error"]}
  \cup {[AllOk EXCEPT !.ticket = t] : t \in {"noid", "error"}}
  \cup {[AllOk EXCEPT !.assoc = "error"]}
  \cup {[AllOk EXCEPT !.upload = u] : u \in {"noid", "error"}}
  \cup {[AllOk EXCEPT !.note = "error"]}
  \cup {[AllOk EXCEPT !.email = "error"]}
  \cup {[AllOk EXCEPT !.contact = "error", !.ticket = "error"]}

When(c, s) == IF c THEN s ELSE <<>>

\* hsUpsertContact throws without a token or when HubSpot fails; the
\* handler catches it and contactId stays null.
ContactId(e, o) == IF e.HUBSPOT_TOKEN /\ o.contact = "id" THEN "id" ELSE "null"

\* hsCreateTicket: HubSpot refuses a request that carries no token.
TicketAnswer(e, o) == IF e.HUBSPOT_TOKEN THEN o.ticket ELSE "error"

\* res?.id || null
TicketId(e, o) == IF TicketAnswer(e, o) = "id" THEN "id" ELSE "null"

\* Variant: the catch of the ticket creation records nothing.
TicketError_silent(e, o) == "null"

\* ticketError is set in the catch of the ticket creation only.
TicketError(e, o) == IF TicketAnswer(e, o) = "error" THEN "message" ELSE "null"

\* if (ticketId && contactId && env.HUBSPOT_TOKEN)
Associates(e, o) ==
  TicketId(e, o) # "null" /\ ContactId(e, o) # "null" /\ e.HUBSPOT_TOKEN

\* if (ticketId && attachmentFiles.length && env.HUBSPOT_TOKEN)
Uploads(f, e, o) ==
  TicketId(e, o) # "null" /\ AttachmentFiles(f) # 0 /\ e.HUBSPOT_TOKEN

\* The upload requests made: one per file, up to the first that throws.
UploadRequests(f, e, o) ==
  IF ~Uploads(f, e, o) THEN 0
  ELSE IF o.upload = "error" THEN 1
  ELSE AttachmentFiles(f)

\* attachmentFileIds.length
FileIds(f, e, o) ==
  IF Uploads(f, e, o) /\ o.upload = "id" THEN AttachmentFiles(f) ELSE 0

NoteId(f, e, o) ==
  IF FileIds(f, e, o) # 0 /\ o.note = "id" THEN "id" ELSE "null"

AttachmentsError(f, e, o) ==
  IF Uploads(f, e, o)
     /\ (o.upload = "error" \/ (FileIds(f, e, o) # 0 /\ o.note = "error"))
    THEN "message" ELSE "null"

\* Variant: the endpoint is not required (sendEmail has a default for it).
EmailConfigured_defaultendpoint(e) ==
  e.EMAIL_ENABLED = "true" /\ e.EMAIL_API_KEY /\ e.FROM_EMAIL

EmailConfigured(e) ==
  e.EMAIL_ENABLED = "true"
  /\ e.EMAIL_API_ENDPOINT /\ e.EMAIL_API_KEY /\ e.FROM_EMAIL

\* Variant: the result of the send is not looked at.
EmailStatus_optimistic(e, o) == IF ~EmailConfigured(e) THEN "skipped" ELSE "sent"

EmailStatus(e, o) ==
  IF ~EmailConfigured(e) THEN "skipped"
  ELSE IF o.email = "ok" THEN "sent"
  ELSE "failed"

Message(emailStatus) ==
  IF emailStatus = "sent" THEN "Submitted. Confirmation email sent."
  ELSE IF emailStatus = "failed" THEN "Submitted. Email delivery is currently unavailable"
  ELSE "Submitted. (Email not configured in this environment.)"

\* The requests the handler sends after the claim number, in their order.
Calls(f, e, o) ==
  When(e.HUBSPOT_TOKEN, <<"contact">>)
  \o <<"ticket">>
  \o When(Associates(e, o), <<"associate contact", "company">>)
  \o When(UploadRequests(f, e, o) # 0, <<"upload">>)
  \o When(FileIds(f, e, o) # 0, <<"note">>)
  \o When(EmailConfigured(e), <<"email">>)

\* No response yet.
NoResp ==
  [status |-> 0, ok |-> FALSE, errors |-> {}, message |-> "",
   claimNumber |-> Undefined, contactId |-> "null", ticketId |-> "null",
   noteId |-> "null", emailStatus |-> "", ticketError |-> "null",
   attachmentsError |-> "null"]

\* The responses that end the handler before the claim-number call.
Early(s) ==
  [NoResp EXCEPT !.status = s.status, !.ok = s.ok, !.errors = s.errors,
                 !.message = IF s.ok THEN "Submitted." ELSE ""]

\* What the platform answers when an exception leaves the handler.
Thrown == [NoResp EXCEPT !.status = 500]

\* return json(request, { ok: true, claimNumber, ..., attachmentsError })
Final(n, f, e, o) ==
  [NoResp EXCEPT !.status = 200, !.ok = TRUE, !.claimNumber = n,
                 !.contactId = ContactId(e, o), !.ticketId = TicketId(e, o),
                 !.noteId = NoteId(f, e, o), !.emailStatus = EmailStatus(e, o),
                 !.message = Message(EmailStatus(e, o)),
                 !.ticketError = TicketError(e, o),
                 !.attachmentsError = AttachmentsError(f, e, o)]

\* Whether any of the caught failures happened.
Down(f, e, o) ==
  IF /\ ContactId(e, o) = "id"
     /\ TicketId(e, o) = "id"
     /\ AttachmentsError(f, e, o) = "null"
     /\ EmailStatus(e, o) # "failed"
    THEN "ok" ELSE "failed"

RECURSIVE Digits(_)
\* The decimal digits of a natural number.
Digits(n) == IF n < 10 THEN <<n>> ELSE Digits(n \div 10) \o <<n % 10>>

\* Variant: the text is made from the counter's baseline, not from the number.
ClaimText_baseline(n) == Digits(Baseline)

\* `${claimNumber}`: the number as it is written into the ticket subject
\* and content, the note body and the e-mail.
ClaimText(n) == Digits(n.v)

\* The claim number as each record sent carries it (<<>>: not sent).
Texts(n, f, e, o) ==
  [ticket |-> ClaimText(n),
   note |-> When(FileIds(f, e, o) # 0, ClaimText(n)),
   email |-> When(EmailConfigured(e), ClaimText(n))]

\* Nothing recorded yet.
NoRun ==
  [started |-> FALSE, form |-> GoodForm, found |-> Undefined, allocs |-> 0,
   env |-> GoodEnv, out |-> AllOk, calls |-> <<>>, uploads |-> 0,
   texts |-> [ticket |-> <<>>, note |-> <<>>, email |-> <<>>],
   resp |-> NoResp]

\* A request arrives and the handler runs to its first return or to the
\* ClaimCounter call.
Submit(r, f) ==
  /\ wpc[r] = "new"
  /\ IF Screen(f).to = "return"
       THEN /\ wpc' = [wpc EXCEPT ![r] = "returned"]
            /\ ipc' = ipc
            /\ inst' = inst
       ELSE /\ wpc' = [wpc EXCEPT ![r] = "alloc"]
            /\ ipc' = [ipc EXCEPT ![r] = "queued"]
            /\ inst' = [inst EXCEPT ![r] = CounterName]
  /\ run' = IF r # watch THEN run
            ELSE [run EXCEPT !.started = TRUE, !.form = f, !.found = stored,
                             !.allocs = IF Screen(f).to = "return" THEN 0 ELSE 1,
                             !.resp = IF Screen(f).to = "return"
                                        THEN Early(Screen(f)) ELSE NoResp]
  /\ UNCHANGED <<stored, loc, prev, across, seen, pend, aged, probe, claim, down, watch>>

\* The ClaimCounter call settles: the handler takes claimNumber from the
\* body, or the exception leaves the handler (nothing catches it).
AwaitClaim(r) ==
  /\ wpc[r] = "alloc"
  /\ Settled(r)
  /\ IF ClaimOutcome(Reply(r)).threw
       THEN /\ wpc' = [wpc EXCEPT ![r] = "threw"]
            /\ claim' = claim
            /\ run' = IF r # watch THEN run ELSE [run EXCEPT !.resp = Thrown]
       ELSE /\ wpc' = [wpc EXCEPT ![r] = "pipeline"]
            /\ claim' = [claim EXCEPT ![r] = ClaimOutcome(Reply(r)).claimNumber]
            /\ run' = run
  /\ UNCHANGED <<stored, ipc, loc, prev, across, seen, pend, aged, probe, down, inst, watch>>

\* The rest of the handler: contact upsert, ticket, associations, files,
\* note, e-mail, each failure caught and logged, then the JSON response
\* { ok: true, claimNumber, ... }.  None of it touches the counter.
\* For a request that is not recorded only the summary is kept: whether
\* every downstream call went well.
Pipeline(r, crmOk) ==
  /\ wpc[r] = "pipeline"
  /\ r # watch
  /\ wpc' = [wpc EXCEPT ![r] = "done"]
  /\ down' = [down EXCEPT ![r] = IF crmOk THEN "ok" ELSE "failed"]
  /\ UNCHANGED <<stored, ipc, loc, prev, across, seen, pend, aged, probe, claim, inst, watch, run>>

\* The same part of the handler for the recorded request, in detail: e is
\* the environment, o what the remote services answer.
PipelineWatched(e, o) ==
  /\ watch \in Reqs
  /\ wpc[watch] = "pipeline"
  /\ wpc' = [wpc EXCEPT ![watch] = "done"]
  /\ down' = [down EXCEPT ![watch] = Down(Parsed(run.form), e, o)]
  /\ run' = [run EXCEPT !.env = e, !.out = o,
                        !.calls = Calls(Parsed(run.form), e, o),
                        !.texts = Texts(claim[watch], Parsed(run.form), e, o),
                        !.uploads = UploadRequests(Parsed(run.form), e, o),
                        !.resp = Final(claim[watch], Parsed(run.form), e, o)]
  /\ UNCHANGED <<stored, ipc, loc, prev, across, seen, pend, aged, probe, claim, inst, watch>>

\* The client goes away while the handler awaits the ClaimCounter: the
\* handler is cancelled, the invocation it started is not.
Abandon(r) ==
  /\ wpc[r] = "alloc"
  /\ wpc' = [wpc EXCEPT ![r] = "abandoned"]
  /\ UNCHANGED <<stored, ipc, loc, prev, across, seen, pend, aged, probe, claim, down, inst, watch, run>>

\* ------------------------------------------------------------ specification

\* Nothing has happened yet.
Idle ==
  /\ ipc = [r \in Reqs |-> "none"]
  /\ loc = [r \in Reqs |-> 0]
  /\ prev = [r \in Reqs |-> None]
  /\ across = [r \in Reqs |-> {}]
  /\ seen = [r \in Reqs |-> None]
  /\ pend = [r \in Reqs |-> {}]
  /\ aged = {}
  /\ probe = 0
  /\ wpc = [r \in Reqs |-> "new"]
  /\ claim = [r \in Reqs |-> Undefined]
  /\ down = [r \in Reqs |-> "none"]
  /\ inst = [r \in Reqs |-> ""]
  /\ run = NoRun

\* No request is recorded; the counter was never used.
Init == Idle /\ stored = Undefined /\ watch = 0

\* What earlier submissions may have left under "n".
Earlier == {Undefined, Num(Baseline + 2)}

\* The first request is recorded; it comes to a counter that was never
\* used or after earlier allocations.
InitWatched == Idle /\ stored \in Earlier /\ watch = 1

Next ==
  \/ \E r \in Reqs, f \in Forms : Submit(r, f)
  \/ \E r \in Reqs : Deliver(r)
  \/ \E r \in Reqs : GetOk(r)
  \/ \E r \in Reqs : GetFail(r)
  \/ \E r \in Reqs : PutOk(r)
  \/ \E r \in Reqs : PutFail(r)
  \/ \E r \in Reqs : Respond(r)
  \/ \E m \in {"GET", "POST"}, p \in {"/", "/next"} : Probe(m, p)
  \/ Restart
  \/ \E r \in Reqs : AwaitClaim(r)
  \/ \E r \in Reqs, crmOk \in BOOLEAN : Pipeline(r, crmOk)
  \/ \E r \in Reqs : Abandon(r)

Spec == Init /\ [][Next]_vars

\* Scheduling: the runtime delivers a queued call once the input gate is
\* open, storage answers every operation it was asked (with a result or an
\* error), and a handler past its last await runs on to its return.
Fairness ==
  \A r \in Reqs :
    /\ WF_vars(Deliver(r))
    /\ WF_vars(GetOk(r) \/ GetFail(r))
    /\ WF_vars(PutOk(r) \/ PutFail(r))
    /\ WF_vars(Respond(r))

\* The counter and its callers up to their call: what a handler does once
\* its call has settled changes nothing the counter reads.
NextCounter ==
  \/ \E r \in Reqs, f \in Forms : Submit(r, f)
  \/ \E r \in Reqs : Deliver(r)
  \/ \E r \in Reqs : GetOk(r)
  \/ \E r \in Reqs : GetFail(r)
  \/ \E r \in Reqs : PutOk(r)
  \/ \E r \in Reqs : PutFail(r)
  \/ \E r \in Reqs : Respond(r)
  \/ \E m \in {"GET", "POST"}, p \in {"/", "/next"} : Probe(m, p)
  \/ Restart

FairSpec == Init /\ [][NextCounter]_vars /\ Fairness

\* The recorded request alone: its handler run, the counter's part in it,
\* and what can happen to the object meanwhile.
NextWatched ==
  \/ \E f \in Forms : Submit(watch, f)
  \/ Deliver(watch)
  \/ GetOk(watch)
  \/ GetFail(watch)
  \/ PutOk(watch)
  \/ PutFail(watch)
  \/ Respond(watch)
  \/ \E m \in {"GET", "POST"}, p \in {"/", "/next"} : Probe(m, p)
  \/ Restart
  \/ AwaitClaim(watch)
  \/ \E e \in Envs, o \in Outcomes : PipelineWatched(e, o)
  \/ Abandon(watch)

SpecWatched == InitWatched /\ [][NextWatched]_vars

\* ------------------------------------------------------------------ claims

Responded(r) == ipc[r] = "responded"

\* The invocation's write has committed.
Wrote(r) == prev[r] # None

\* The write committed but no response was produced: the slot is lost.
Lost(r) == Wrote(r) /\ ipc[r] = "failed"

\* No call is under way.
Quiescent == \A r \in Reqs : ipc[r] \notin {"queued", "get", "put", "committed"}

Returned == {loc[r] : r \in {q \in Reqs : Responded(q)}}

\* C1: no integer is returned by two distinct successful invocations.
C1_NoDuplicate ==
  \A a, b \in Reqs : (a # b /\ Responded(a) /\ Responded(b)) => loc[a] # loc[b]

C1_Witness == \A r \in Reqs : Responded(r)

\* C2: N calls pending together when the first of them is delivered to a
\* counter at p, all answered and no other call's write falling among
\* theirs, return exactly p+1 .. p+N.
C2_ConcurrentBatch ==
  \A r \in Reqs :
    LET B == pend[r]
        p == Value(seen[r])
        N == Cardinality(B)
    IN ( /\ \A q \in B : Responded(q)
         /\ \A q \in Reqs \ B : Wrote(q) => (loc[q] <= p \/ loc[q] > p + N) )
       => {loc[q] : q \in B} = (p + 1)..(p + N)

C2_Witness ==
  \E r \in Reqs : Cardinality(pend[r]) >= 2 /\ \A q \in pend[r] : Responded(q)

\* C3: at most one invocation is between the start of its storage read and
\* the commit of its storage write.
C3_Serialized ==
  Cardinality({r \in Reqs : ipc[r] \in {"get", "put"}}) <= 1

C3_Witness ==
  \E a, b \in Reqs : ipc[a] = "put" /\ ipc[b] = "queued"

\* The values whose write committed.
Written == {loc[r] : r \in {q \in Reqs : Wrote(q)}}

NumWrote == Cardinality({q \in Reqs : Wrote(q)})
NumResponded == Cardinality({q \in Reqs : Responded(q)})

\* C4 as stated: each call returns the value under "n" before its write
\* (100000 if unset) plus one, and once no call is under way the N answered
\* calls hold exactly 100001 .. 100000+N.
C4_Original ==
  /\ \A r \in Reqs : Responded(r) => loc[r] = Value(prev[r]) + 1
  /\ Quiescent => Returned = (Baseline + 1)..(Baseline + NumResponded)

\* C4 amended: each call returns the value under "n" before its write
\* (100000 if unset) plus one; the committed values are exactly
\* 100001 .. 100000+K, the returned ones are among them, and they are
\* exactly 100001 .. 100000+N when no committed write lost its response.
C4_Amended ==
  /\ \A r \in Reqs : Responded(r) => (Wrote(r) /\ loc[r] = Value(prev[r]) + 1)
  /\ Written = (Baseline + 1)..(Baseline + NumWrote)
  /\ (Quiescent /\ \A r \in Reqs : ~Lost(r))
       => Returned = (Baseline + 1)..(Baseline + NumResponded)

C4_Witness ==
  /\ Quiescent
  /\ \E a, b \in Reqs : Lost(a) /\ Responded(b) /\ loc[b] = Baseline + 2

\* C5: a response carrying v exists only when the value under "n" is
\* already at least v.
C5_PersistBeforeReturn ==
  \A r \in Reqs :
    /\ Responded(r) => (stored.t = "number" /\ stored.v >= loc[r])
    /\ claim[r] # Undefined => (stored.t = "number" /\ stored.v >= claim[r].v)

C5_Witness == \E r \in Reqs : Responded(r) /\ stored = Num(loc[r])

\* C6: a call delivered after a restart that followed the return of v
\* returns more than v, and v+1 when v was still the value under "n".
C6_Durable ==
  \A a, b \in Reqs :
    (Responded(b) /\ a \in across[b])
      => /\ loc[b] > loc[a]
         /\ prev[b] = Num(loc[a]) => loc[b] = loc[a] + 1

C6_Witness ==
  \E a, b \in Reqs : Responded(b) /\ a \in across[b] /\ loc[b] = loc[a] + 1

\* C7: a call that dies after its write committed leaves the value under
\* "n" in place and its number is never returned by any call; a call that
\* dies before its write committed leaves the value under "n" unchanged.
C7_CrashNeverReuses ==
  [][ /\ \A r \in Reqs :
           (ipc[r] \in {"get", "put", "committed"} /\ ipc'[r] = "failed")
             => stored' = stored
      /\ \A r, q \in Reqs :
           (Lost(r)' /\ Responded(q)') => loc'[q] # loc'[r] ]_vars

C7_Witness ==
  \E r, q \in Reqs : Lost(r) /\ Responded(q) /\ loc[q] = loc[r] + 1

\* A step in which the storage read or write of invocation r fails.
StorageFails(r) == ipc[r] \in {"get", "put"} /\ ipc'[r] \notin {"get", "put", "committed"}

\* C8: a call whose storage read or write fails settles as an error, never
\* as a response; the value under "n" is then what it was when the call
\* was delivered, so the next call returns what it would have returned
\* without the failed one.
C8_FailureAtomic ==
  [][ \A r \in Reqs :
        StorageFails(r)
          => /\ Reply(r)'.kind = "exception"
             /\ stored' = stored
             /\ stored' = seen[r]
             /\ ~Wrote(r)'
             /\ Value(stored') = Value(seen[r]) ]_vars

C8_Witness ==
  \E r, q \in Reqs :
    /\ ipc[r] = "failed" /\ ~Wrote(r) /\ loc[r] # 0
    /\ Responded(q) /\ seen[q] = seen[r] /\ loc[q] = loc[r]

\* C9: a request whose ClaimCounter call gave no number ends with the
\* exception leaving the handler: no claimNumber, no CRM or e-mail call, no
\* response of the handler; the handler goes on only with the number the
\* counter answered.
C9_HardFailure ==
  \A r \in Reqs :
    /\ (ipc[r] \in {"failed", "notfound"} /\ wpc[r] \notin {"alloc", "abandoned"})
         => (wpc[r] = "threw" /\ claim[r] = Undefined /\ down[r] = "none")
    /\ wpc[r] \in {"pipeline", "done"}
         => (Responded(r) /\ claim[r] = Num(loc[r]))
    /\ down[r] # "none" => wpc[r] = "done"

C9_Witness == \E r \in Reqs : ipc[r] = "failed" /\ wpc[r] = "threw"

\* C10: the value under "n" (100000 while unset) never goes down, and
\* every committed write raises it.
C10_Monotonic ==
  [][ /\ Value(stored') >= Value(stored)
      /\ \A r \in Reqs :
           (ipc[r] = "put" /\ ipc'[r] = "committed")
             => (stored'.t = "number" /\ stored'.v > Value(stored)) ]_vars

C10_Witness ==
  /\ stored = Num(Baseline + 2)
  /\ \E r, q \in Reqs : Lost(r) /\ wpc[q] = "done" /\ down[q] = "failed"

\* C11: every call a handler issues is addressed to the ClaimCounter
\* instance named "global", and every claim number a handler holds is the
\* number that instance answered to the handler's own call: none comes from
\* another instance or from state kept in the Worker.
C11_OneGlobalInstance ==
  \A r \in Reqs :
    /\ ipc[r] # "none" => inst[r] = "global"
    /\ claim[r] # Undefined => (Responded(r) /\ claim[r] = Num(loc[r]))

C11_Witness ==
  \E a, b \in Reqs :
    /\ a # b
    /\ inst[a] = "global" /\ inst[b] = "global"
    /\ claim[a] # Undefined /\ claim[b] # Undefined

\* C12: the value under "n" changes only in the step in which an
\* allocation's put commits, and then to that allocation's number; a request
\* to the object that is not POST /next is answered 404 and leaves it as it
\* was; so does every step of the Worker.
C12_OnlyAllocateWrites ==
  [][ /\ stored' # stored =>
           \E r \in Reqs : /\ ipc[r] = "put" /\ ipc'[r] = "committed"
                            /\ stored' = Num(loc[r])
      /\ \A m \in {"GET", "POST"}, p \in {"/", "/next"} :
           (<<m, p>> # <<"POST", "/next">> /\ Probe(m, p))
             => (probe' = 404 /\ stored' = stored)
      /\ (wpc' # wpc \/ claim' # claim \/ down' # down) => stored' = stored ]_vars

C12_Witness ==
  /\ probe = 404
  /\ stored = Num(Baseline + 1)
  /\ \E r \in Reqs : wpc[r] = "done"
  /\ \E r \in Reqs : wpc[r] = "returned"

\* ------------------------------------------------- claims on the handler
\* Stated on the recorded run (SpecWatched), in terms of what was submitted.

Posted(f) == f.method = "POST"

\* The body could be read: an unreadable JSON body counts as an empty form,
\* an unreadable multipart body does not.
Readable(f) == f.ct = "json" \/ f.parses

\* The fields, as README and handler require them.
FieldsValid(f) ==
  /\ ~(f.ct = "json" /\ ~f.parses)
  /\ f.vin = "valid"
  /\ f.customer = "complete" /\ f.customer_email = "valid"
  /\ f.warranty = "complete"
  /\ f.claim_submitted_by = "dealer" => (f.dealer = "complete" /\ f.dealer_email = "valid")

\* Attachments travel in multipart bodies only.
OverLimits(f) ==
  f.ct = "multipart" /\ f.parses /\ (f.files > 10 \/ f.big # 0)

\* The submission passes every check of the handler.
Valid(f) == Posted(f) /\ Readable(f) /\ FieldsValid(f) /\ ~OverLimits(f)

\* The hidden field the handler reads is filled.
Trapped(f) == Readable(f) /\ f.hidden \in {"honeypot", "_hp"}

\* The counter has not been touched by the recorded request.
Untouched ==
  /\ run.allocs = 0
  /\ ipc[watch] = "none"
  /\ claim[watch] = Undefined
  /\ stored = run.found

\* No later step of the pipeline was performed.
NoPipeline == Untouched /\ run.calls = <<>> /\ run.uploads = 0

\* C13: a submission that passes validation leads to exactly one call of
\* the counter; a call is only ever made for a submission whose fields and
\* attachments are valid; and a CRM request is only sent once that one call
\* has answered with the claim number.
C13_OnceAfterValidation ==
  run.started =>
    /\ (Valid(run.form) /\ run.form.hidden = "") => run.allocs = 1
    /\ run.allocs <= 1
    /\ run.allocs = 1 => Valid(run.form)
    /\ run.calls # <<>> =>
         (run.allocs = 1 /\ Responded(watch) /\ claim[watch] = Num(loc[watch]))

C13_Witness ==
  /\ run.started /\ run.allocs = 1
  /\ wpc[watch] = "done"
  /\ run.calls[1] = "contact" /\ run.calls[2] = "ticket"

\* C14: a request answered 400 or 405, an OPTIONS preflight, and any
\* request that is not a POST, is unreadable, has an invalid field or
\* exceeds the attachment limits, leaves the counter as it was: no call is
\* made for it and nothing is written.
C14_RejectedReservesNothing ==
  run.started =>
    ( ( \/ run.resp.status \in {400, 405, 204}
        \/ ~Posted(run.form)
        \/ ~Readable(run.form)
        \/ ~FieldsValid(run.form)
        \/ OverLimits(run.form) )
      => Untouched )

C14_Witness ==
  /\ run.started
  /\ run.resp.status = 400
  /\ "Too many attachments" \in run.resp.errors
  /\ Untouched

InFlight(r) == ipc[r] \in {"queued", "get", "put", "committed"}

\* C15: under fair scheduling, with storage answering every operation,
\* every call of the counter that was issued is eventually settled, with a
\* number or with an error, however many calls are pending with it; and
\* whenever the input gate is closed it opens again, so the counter goes on
\* serving calls.
C15_NoDeadlock ==
  /\ \A r \in Reqs : InFlight(r) ~> (ipc[r] \in {"responded", "failed"})
  /\ ~GateOpen ~> GateOpen

\* Two calls were pending together; one failed, the other was answered.
C15_Witness ==
  \E a, b \in Reqs :
    /\ a # b
    /\ b \in pend[a]
    /\ ipc[a] = "failed"
    /\ Responded(b)

\* C17 as claimed: a submission whose claim_submitted_by is not "dealer" is
\* rejected with 400 and reaches neither the counter nor the CRM.
C17_DealerOnly ==
  run.started =>
    ( (Posted(run.form) /\ Readable(run.form) /\ run.form.claim_submitted_by # "dealer")
      => (run.resp.status = 400 /\ NoPipeline) )

AttachmentMessages == {"Too many attachments", "Attachment is too large"}

\* C18 as claimed: a multipart submission over the attachment limits is
\* answered 400 with an attachment error, without allocation or upload; at
\* most 10 files are ever uploaded.
C18_Original ==
  run.started =>
    /\ (Posted(run.form) /\ OverLimits(run.form))
         => ( /\ run.resp.status = 400
              /\ run.resp.errors \cap AttachmentMessages # {}
              /\ NoPipeline )
    /\ run.uploads <= 10

\* C18: a multipart submission with more than 10 attachments, or with one
\* above 10 MB, gets no claim number and none of its files is uploaded; it
\* is answered 400 with an attachment error, unless the honeypot the
\* handler reads is filled: that check comes first and answers 200 with
\* ok: true.  At most 10 files are ever uploaded.
C18_Amended ==
  run.started =>
    /\ (Posted(run.form) /\ OverLimits(run.form))
         => ( /\ NoPipeline
              /\ run.resp.claimNumber = Undefined
              /\ IF Trapped(run.form)
                   THEN run.resp.status = 200 /\ run.resp.ok
                   ELSE /\ run.resp.status = 400
                        /\ ~run.resp.ok
                        /\ run.resp.errors \cap AttachmentMessages # {} )
    /\ run.uploads <= 10

C18_Witness ==
  /\ run.started
  /\ run.form.big # 0
  /\ run.resp.status = 400
  /\ run.resp.errors = {"Attachment is too large"}
  /\ NoPipeline

\* C19 as claimed: a submission whose hidden field, website in the form of
\* the README, is filled is dropped: 200 with ok: true and no claimNumber,
\* no allocation, no contact, ticket, note or e-mail.
C19_HoneypotDropped ==
  run.started =>
    ( (Posted(run.form) /\ Readable(run.form) /\ run.form.hidden # "")
      => ( /\ run.resp.status = 200 /\ run.resp.ok
           /\ run.resp.claimNumber = Undefined
           /\ NoPipeline ) )

\* The recorded handler sent the request c.
Sent(c) == \E i \in DOMAIN run.calls : run.calls[i] = c

\* C20 as claimed: a response that carries a ticket id comes from a run in
\* which the association of the ticket to the contact was attempted.
C20_TicketAssociated ==
  run.resp.ticketId # "null" => Sent("associate contact")

\* The recorded handler has returned its JSON response.
Answered == wpc[watch] = "done"

\* EMAIL_ENABLED is exactly "true" and the three e-mail bindings are set.
FullyConfigured(e) ==
  /\ e.EMAIL_ENABLED = "true"
  /\ e.EMAIL_API_ENDPOINT
  /\ e.EMAIL_API_KEY
  /\ e.FROM_EMAIL

Accepted ==
  /\ run.resp.status = 200
  /\ run.resp.ok
  /\ Responded(watch)
  /\ run.resp.claimNumber = Num(loc[watch])

\* C22: when the send of the confirmation e-mail fails, emailStatus is
\* "failed", the message says that e-mail delivery is unavailable and the
\* claim is accepted all the same; emailStatus is "sent" only when a send
\* was made and succeeded.
C22_EmailFailureTolerated ==
  Answered =>
    /\ (Sent("email") /\ run.out.email = "error")
         => ( /\ run.resp.emailStatus = "failed"
              /\ run.resp.message = "Submitted. Email delivery is currently unavailable"
              /\ Accepted )
    /\ run.resp.emailStatus = "sent" => (Sent("email") /\ run.out.email = "ok")

C22_Witness ==
  /\ Answered
  /\ run.out.email = "error"
  /\ run.resp.emailStatus = "failed"
  /\ run.resp.ticketId = "id"
  /\ Accepted

\* HubSpot answered the ticket creation with an error, or refused it for
\* want of a token.
TicketFailed == run.out.ticket = "error" \/ ~run.env.HUBSPOT_TOKEN

RECURSIVE ToNumber(_)
\* The number a sequence of decimal digits denotes.
ToNumber(d) ==
  IF d = <<>> THEN 0 ELSE ToNumber(SubSeq(d, 1, Len(d) - 1)) * 10 + d[Len(d)]

\* C24: in an accepted submission the claim number is one value: the
\* handler made one call of the counter, and the claimNumber of the
\* response, the number held by the handler and the numbers written into
\* the ticket, the attachment note and the confirmation e-mail are all the
\* n that call answered, one more than the value its write replaced.
C24_OneClaimNumber ==
  Answered =>
    LET n == loc[watch] IN
      /\ run.allocs = 1
      /\ Responded(watch)
      /\ n = Value(prev[watch]) + 1
      /\ claim[watch] = Num(n)
      /\ run.resp.claimNumber = Num(n)
      /\ ToNumber(run.texts.ticket) = n
      /\ Sent("note") => ToNumber(run.texts.note) = n
      /\ Sent("email") => ToNumber(run.texts.email) = n

C24_Witness ==
  /\ Answered
  /\ Sent("note") /\ Sent("email")
  /\ run.resp.claimNumber = Num(Baseline + 3)
  /\ run.texts.note = <<1, 0, 0, 0, 0, 3>>
  /\ run.texts.email = run.texts.ticket

====
